---- MODULE Spec2Model ----
(***************************************************************************)
(* A state-machine model of the Deep Note synthesizer                      *)
(* (src/src/deepNote.ts, class DeepNoteSynthesizer) together with the      *)
(* parts of its host that drive it: the output device (AudioContext), the  *)
(* timer queue (setTimeout) and the animation-frame queue                  *)
(* (requestAnimationFrame).                                                *)
(*                                                                         *)
(* Units: time in whole seconds, frequencies in hundredths of a hertz,     *)
(* gains in tenths, eased progress in thousandths.                         *)
(***************************************************************************)
EXTENDS Integers, Sequences, FiniteSets, Bags, TLC

(***************************************************************************)
(* Configuration (DeepNoteConfig).  The constructor accepts any partial    *)
(* configuration over the defaults; the engine modelled is one built with  *)
(* two voices and phases of 1, 2, 1 and 1 seconds, so that every phase     *)
(* boundary is crossed within the clock's range.  The start frequency      *)
(* range is the default one.                                               *)
(***************************************************************************)
VoiceCount == 2
ChaosDuration == 1
ConvergeDuration == 2
SustainDuration == 1
FadeDuration == 1
MinStartFreq == 200
MaxStartFreq == 400

\* Bounds of the exploration.
MaxStarts == 2
MaxStops == 2
MaxLate == 1
MaxStartAt == 1
MaxHist == 3

\* The table with the first entry of its second half missing.
targetFrequencies_shortSecondHalf ==
  << 7342, 9250, 11000, 14683, 18500, 22000, 29366, 36999, 44000,
     58733, 73999, 88000, 117466, 147998, 176000,
     9250, 11000, 14683, 18500, 22000, 29366, 36999, 44000,
     58733, 73999, 88000, 117466, 147998, 176000 >>

\* The D major table of the class, in hundredths of a hertz.
targetFrequencies ==
  << 7342, 9250, 11000, 14683, 18500, 22000, 29366, 36999, 44000,
     58733, 73999, 88000, 117466, 147998, 176000,
     7342, 9250, 11000, 14683, 18500, 22000, 29366, 36999, 44000,
     58733, 73999, 88000, 117466, 147998, 176000 >>

VARIABLES
  phase,             \* this.phase: "idle", "chaos", "converge" or "sustain"
  voices,            \* this.voices: sequence of voice records
  frequencyHistory,  \* this.frequencyHistory: one sequence of points per voice
  startTime,         \* this.startTime
  animationId,       \* this.animationId, 0 for null
  snapshot,          \* the last value handed to the visualization callback: <<>> or <<s>>
  ctxState,          \* audioContext.state
  awaiting,          \* number of start() calls suspended at `await resume()`
  lastCall,          \* what the most recent start() or stop() call did
  timers,            \* bag of pending setTimeout callbacks [kind, due]
  rafs,              \* ids of the pending requestAnimationFrame callbacks
  now,               \* the clock (audioContext.currentTime and the timer clock)
  oscStops,          \* per oscillator ever started: number of stop() commands received
  fadeRampAt,        \* time of the last fade ramp issued on the master gain, -1 if none
  deviceCmds,        \* number of commands issued to the output device
  startCalls,        \* number of start() calls that passed the guard
  stopCalls,         \* number of stop() calls the user made while playing
  inits,             \* start() bodies run since the last stop()
  run,               \* a run under a Config of its own (see the end of the model)
  gainRamps,         \* per oscillator ever started: the target of its gain ramp, in hundredths
  calc,              \* the last evaluation of a function of the class on its own
  app                \* the fields of DeepNoteApp and its pending status callbacks

vars == << phase, voices, frequencyHistory, startTime, animationId, snapshot,
           ctxState, awaiting, lastCall, timers, rafs, now, oscStops,
           fadeRampAt, deviceCmds, startCalls, stopCalls, inits, run,
           gainRamps, calc, app >>

\* The engine's own fields and everything it has handed to its host.
engineVars == << phase, voices, frequencyHistory, startTime, animationId,
                 snapshot, timers, rafs, oscStops, fadeRampAt, deviceCmds,
                 gainRamps >>

----------------------------------------------------------------------------
(* Pure functions of the class *)

Max(a, b) == IF a > b THEN a ELSE b
Min(a, b) == IF a < b THEN a ELSE b

\* calculateCompensationGain with the bands' upper bounds inclusive.
calculateCompensationGain_upperInclusive(frequency) ==
  LET f == Max(2000, Min(2000000, frequency))
  IN  IF f <= 10000 THEN 30
      ELSE IF f <= 20000 THEN 20
      ELSE IF f <= 50000 THEN 15
      ELSE IF f <= 200000 THEN 10
      ELSE IF f <= 500000 THEN 12
      ELSE 15

\* calculateCompensationGain with the gains of the two lowest bands swapped.
calculateCompensationGain_lowBandsSwapped(frequency) ==
  LET f == Max(2000, Min(2000000, frequency))
  IN  IF f < 10000 THEN 20
      ELSE IF f < 20000 THEN 30
      ELSE IF f < 50000 THEN 15
      ELSE IF f < 200000 THEN 10
      ELSE IF f < 500000 THEN 12
      ELSE 15

\* calculateCompensationGain leaving frequencies outside 20 Hz .. 20 kHz
\* uncompensated instead of clamping them.
calculateCompensationGain_unityOutside(frequency) ==
  IF frequency < 2000 \/ frequency > 2000000 THEN 10
  ELSE IF frequency < 10000 THEN 30
  ELSE IF frequency < 20000 THEN 20
  ELSE IF frequency < 50000 THEN 15
  ELSE IF frequency < 200000 THEN 10
  ELSE IF frequency < 500000 THEN 12
  ELSE 15

\* calculateCompensationGain, frequency in hundredths of a hertz, gain in tenths.
calculateCompensationGain(frequency) ==
  LET f == Max(2000, Min(2000000, frequency))
  IN  IF f < 10000 THEN 30
      ELSE IF f < 20000 THEN 20
      ELSE IF f < 50000 THEN 15
      ELSE IF f < 200000 THEN 10
      ELSE IF f < 500000 THEN 12
      ELSE 15

\* getTotalDuration with the fade left out of the sum.
getTotalDuration_noFade ==
  ChaosDuration + ConvergeDuration + SustainDuration

getTotalDuration ==
  ChaosDuration + ConvergeDuration + SustainDuration + FadeDuration

\* fadeStartTime with the sustain phase left out of the sum.
fadeStartTime_noSustain == ChaosDuration + ConvergeDuration

\* fadeStartTime of scheduleEnding
fadeStartTime == ChaosDuration + ConvergeDuration + SustainDuration

\* The last clock value of the exploration: a run begun at MaxStartAt ends,
\* with both of its timers as late as they may be, within the range.
MaxTime == MaxStartAt + getTotalDuration + 2 * MaxLate

\* 1000 * cos(j * pi / 12), j in 0..12.
CosTwelfths == << 1000, 966, 866, 707, 500, 259, 0, -259, -500, -707, -866, -966, -1000 >>

\* 1000 * 0.5 * (1 - Math.cos(Math.PI * num / den)) for num >= 0, the angle
\* taken down to a twelfth of pi; the cosine has period 2 * pi and is even
\* about pi.
easedProgress(num, den) ==
  LET j == ((12 * num) \div den) % 24
      k == IF j > 12 THEN 24 - j ELSE j
  IN  (1000 - CosTwelfths[k + 1]) \div 2

\* The phase update with the two assignments swapped.
updatePhase_swapped(ph, elapsed) ==
  IF elapsed > ChaosDuration + ConvergeDuration THEN "converge"
  ELSE IF elapsed > ChaosDuration THEN "sustain"
  ELSE ph

\* The phase update ending the run by itself once the total duration has
\* elapsed.
updatePhase_idleAtEnd(ph, elapsed) ==
  IF elapsed > getTotalDuration THEN "idle"
  ELSE IF elapsed > ChaosDuration + ConvergeDuration THEN "sustain"
  ELSE IF elapsed > ChaosDuration THEN "converge"
  ELSE ph

\* The phase update with the chaos threshold compared by >=.
updatePhase_chaosInclusive(ph, elapsed) ==
  IF elapsed > ChaosDuration + ConvergeDuration THEN "sustain"
  ELSE IF elapsed >= ChaosDuration THEN "converge"
  ELSE ph

\* The phase update with the converge threshold compared by >=.
updatePhase_convergeInclusive(ph, elapsed) ==
  IF elapsed >= ChaosDuration + ConvergeDuration THEN "sustain"
  ELSE IF elapsed > ChaosDuration THEN "converge"
  ELSE ph

\* The phase update of updateVisualization.
updatePhase(ph, elapsed) ==
  IF elapsed > ChaosDuration + ConvergeDuration THEN "sustain"
  ELSE IF elapsed > ChaosDuration THEN "converge"
  ELSE ph

\* The reported frequency jumping to the target when chaos ends.
currentFrequency_jumps(voice, ph, elapsed) ==
  IF ph = "chaos" THEN voice.startFrequency
  ELSE voice.targetFrequency

\* The frequency updateVisualization reports for one voice.
currentFrequency(voice, ph, elapsed) ==
  IF ph = "chaos" THEN voice.startFrequency
  ELSE IF ph = "converge" THEN
    LET freqDiff == voice.targetFrequency - voice.startFrequency
    IN  voice.startFrequency
          + ((freqDiff * easedProgress(elapsed - ChaosDuration, ConvergeDuration)) \div 1000)
  ELSE voice.targetFrequency

getCurrentPhase == phase

getElapsedTime == IF phase = "idle" THEN 0 ELSE now - startTime

----------------------------------------------------------------------------
(* The host: oscillators, timers, animation frames *)

\* requestAnimationFrame returns an id no pending callback has.
NewFrameId(pending) == CHOOSE i \in 1..(Cardinality(pending) + 1) : i \notin pending

Timer(kind, due) == [kind |-> kind, due |-> due]

\* Timers run in the order of their due times, never before they are due.
MayFire(t) ==
  /\ BagIn(t, timers)
  /\ t.due <= now
  /\ \A u \in BagToSet(timers) : t.due <= u.due

InitialStates == {"suspended", "running"}

\* No function has been evaluated on its own.
NoCalc == [ op |-> "none" ]

\* No run under a Config of its own has begun.
NoRun == [ phase |-> "idle" ]

\* DeepNoteApp after its constructor: isPlaying is false, no play() waits for
\* start(), no updateStatus callback is pending; the buttons and the status
\* text are as the page's markup has them.  statusRafs counts the pending
\* updateStatus callbacks, resets the times the status loop has called
\* stop(), and lastPlay is what the most recent play() has done.
NewApp ==
  [ isPlaying |-> FALSE,
    playBtn |-> "markup",
    stopBtn |-> "markup",
    phaseText |-> "markup",
    statusRafs |-> 0,
    resets |-> 0,
    lastPlay |-> "none" ]

Init ==
  /\ phase = "idle"
  /\ voices = << >>
  /\ frequencyHistory = << >>
  /\ startTime = 0
  /\ animationId = 0
  /\ snapshot = << >>
  /\ ctxState \in InitialStates
  /\ awaiting = 0
  /\ lastCall = "none"
  /\ timers = EmptyBag
  /\ rafs = {}
  /\ now = 0
  /\ oscStops = << >>
  /\ fadeRampAt = -1
  /\ deviceCmds = 0
  /\ startCalls = 0
  /\ stopCalls = 0
  /\ inits = 0
  /\ run = NoRun
  /\ gainRamps = << >>
  /\ calc = NoCalc
  /\ app = NewApp

----------------------------------------------------------------------------
(* The private steps of start() *)

\* Math.random() * (maxStartFreq - minStartFreq) added to minStartFreq, in
\* hundredths of a hertz, for the draw q/4 of Math.random().
randomStartFrequency(q) ==
  100 * MinStartFreq + (q * 100 * (MaxStartFreq - MinStartFreq)) \div 4

\* initializeVoices taking the compensation of the start frequency.
initializeVoices_gainOfStart(draws) ==
  [ i \in 1..VoiceCount |->
      LET targetFrequency ==
            targetFrequencies[((i - 1) % Len(targetFrequencies)) + 1]
      IN  [ oscillator |-> Len(oscStops) + i,
            startFrequency |-> randomStartFrequency(draws[i]),
            targetFrequency |-> targetFrequency,
            compensationGain |->
              calculateCompensationGain(randomStartFrequency(draws[i])) ] ]

\* initializeVoices without `this.voices = []`: the new voices are pushed
\* after those the engine holds.
initializeVoices_appends(draws) ==
  voices \o
  [ i \in 1..VoiceCount |->
      LET targetFrequency ==
            targetFrequencies[((i - 1) % Len(targetFrequencies)) + 1]
      IN  [ oscillator |-> Len(oscStops) + i,
            startFrequency |-> randomStartFrequency(draws[i]),
            targetFrequency |-> targetFrequency,
            compensationGain |-> calculateCompensationGain(targetFrequency) ] ]

\* initializeVoices: voiceCount fresh oscillators, numbered after those the
\* device already holds; draws[i] is voice i's random draw.
initializeVoices(draws) ==
  [ i \in 1..VoiceCount |->
      LET targetFrequency ==
            targetFrequencies[((i - 1) % Len(targetFrequencies)) + 1]
      IN  [ oscillator |-> Len(oscStops) + i,
            startFrequency |-> randomStartFrequency(draws[i]),
            targetFrequency |-> targetFrequency,
            compensationGain |-> calculateCompensationGain(targetFrequency) ] ]

\* The number of initializeFrequencyHistory calls so far: one per
\* initializeVoices call, each of which starts voiceCount oscillators.
historyGeneration == Len(oscStops) \div VoiceCount

\* initializeFrequencyHistory
initializeFrequencyHistory(vs) == [ i \in DOMAIN vs |-> << >> ]

\* Number of set-points scheduleFrequencyConvergence issues per voice:
\* totalUpdates + 1, one every 10 ms.
convergenceUpdates == 100 * ConvergeDuration + 1

\* start() submitting the envelopes only, the convergence left to the ticks.
startCommands_envelopesOnly == VoiceCount * 7 + 4

\* Commands start() issues to the device: per voice createOscillator,
\* createGain, two connects, start, two gain commands and the convergence
\* set-points; four master-gain commands.
startCommands == VoiceCount * (7 + convergenceUpdates) + 4

\* One pass of updateVisualization's body while the phase is ph at elapsed
\* time e: the history with one point more per voice.
pushHistory(hist, vs, ph, e) ==
  [ i \in DOMAIN vs |->
      Append(hist[i], [ time |-> e, frequency |-> currentFrequency(vs[i], ph, e) ]) ]

\* The AudioVisualization value handed to the callback.  Its frequencyHistory
\* is [...this.frequencyHistory]: a new outer array holding the engine's own
\* inner arrays.  The model records which inner arrays these are (the count
\* of initializeFrequencyHistory calls that made them) and how long each was
\* when the value was handed out.
visualization(hist, gen, vs, ph, e) ==
  [ frequencies |-> [ i \in DOMAIN vs |-> vs[i].targetFrequency ],
    currentFrequencies |-> [ i \in DOMAIN vs |-> currentFrequency(vs[i], ph, e) ],
    frequencyHistory |-> [ arrays |-> gen,
                           lengths |-> [ i \in DOMAIN hist |-> Len(hist[i]) ] ],
    currentTime |-> e,
    totalDuration |-> getTotalDuration,
    timestamp |-> now ]

\* baseGain of scheduleAudioEvents, 0.1, in tenths.
baseGain == 1

\* compensatedGain of scheduleAudioEvents, the target of the voice's gain
\* ramp: tenths times tenths, in hundredths.
compensatedGain(voice) == baseGain * voice.compensationGain

\* The body of start() after the guard and the resume: initializeVoices,
\* initializeFrequencyHistory, startTime, phase, scheduleAudioEvents,
\* startVisualization (whose first pass runs at once) and scheduleEnding.
startBody(draws) ==
  LET vs == initializeVoices(draws)
      ph == updatePhase("chaos", 0)
      hist == pushHistory(initializeFrequencyHistory(vs), vs, ph, 0)
      id == NewFrameId(rafs)
  IN  /\ voices' = vs
      /\ oscStops' = oscStops \o [ i \in 1..VoiceCount |-> 0 ]
      /\ gainRamps' = gainRamps \o [ i \in 1..VoiceCount |-> compensatedGain(vs[i]) ]
      /\ startTime' = now
      /\ phase' = ph
      /\ deviceCmds' = deviceCmds + startCommands
      /\ frequencyHistory' = hist
      /\ snapshot' = << visualization(hist, historyGeneration + 1, vs, ph, 0) >>
      /\ animationId' = id
      /\ rafs' = rafs \cup {id}
      /\ timers' = timers (+) SetToBag({ Timer("fade", now + fadeStartTime) })
      /\ inits' = inits + 1
      /\ UNCHANGED fadeRampAt

\* stop() with `this.frequencyHistory = []` left out.
stop_keepsHistory ==
  /\ phase' = "idle"
  /\ oscStops' = [ o \in DOMAIN oscStops |->
                     IF \E i \in DOMAIN voices : voices[i].oscillator = o
                     THEN oscStops[o] + 1 ELSE oscStops[o] ]
  /\ deviceCmds' = deviceCmds + Len(voices)
  /\ voices' = << >>
  /\ IF animationId # 0
     THEN /\ rafs' = rafs \ {animationId}
          /\ animationId' = 0
     ELSE UNCHANGED << rafs, animationId >>
  /\ inits' = 0
  /\ UNCHANGED << startTime, snapshot, fadeRampAt, gainRamps, frequencyHistory >>

\* stop() with `this.voices = []` left out.
stop_keepsVoices ==
  /\ phase' = "idle"
  /\ oscStops' = [ o \in DOMAIN oscStops |->
                     IF \E i \in DOMAIN voices : voices[i].oscillator = o
                     THEN oscStops[o] + 1 ELSE oscStops[o] ]
  /\ deviceCmds' = deviceCmds + Len(voices)
  /\ frequencyHistory' = << >>
  /\ IF animationId # 0
     THEN /\ rafs' = rafs \ {animationId}
          /\ animationId' = 0
     ELSE UNCHANGED << rafs, animationId >>
  /\ inits' = 0
  /\ UNCHANGED << startTime, snapshot, fadeRampAt, gainRamps, voices >>

\* stop() stopping every oscillator the engine ever started, not only the
\* current voices'.
stop_allOscillators ==
  /\ phase' = "idle"
  /\ oscStops' = [ o \in DOMAIN oscStops |->
                     IF voices # << >>
                     THEN oscStops[o] + 1 ELSE oscStops[o] ]
  /\ deviceCmds' = deviceCmds + Len(voices)
  /\ voices' = << >>
  /\ frequencyHistory' = << >>
  /\ IF animationId # 0
     THEN /\ rafs' = rafs \ {animationId}
          /\ animationId' = 0
     ELSE UNCHANGED << rafs, animationId >>
  /\ inits' = 0
  /\ UNCHANGED << startTime, snapshot, fadeRampAt, gainRamps >>

\* stop().  It leaves the timer queue alone: no clearTimeout is called.
stop ==
  /\ phase' = "idle"
  /\ oscStops' = [ o \in DOMAIN oscStops |->
                     IF \E i \in DOMAIN voices : voices[i].oscillator = o
                     THEN oscStops[o] + 1 ELSE oscStops[o] ]
  /\ deviceCmds' = deviceCmds + Len(voices)
  /\ voices' = << >>
  /\ frequencyHistory' = << >>
  /\ IF animationId # 0
     THEN /\ rafs' = rafs \ {animationId}
          /\ animationId' = 0
     ELSE UNCHANGED << rafs, animationId >>
  /\ inits' = 0
  /\ UNCHANGED << startTime, snapshot, fadeRampAt, gainRamps >>

----------------------------------------------------------------------------
(* The operations *)

\* The draw vectors explored: voices alternate between the two draws.
Draws ==
  { [ i \in 1..VoiceCount |-> IF i % 2 = k THEN 0 ELSE 3 ] : k \in {0, 1} }

\* A run may begin while the clock leaves it room to end.
RoomToRun == now <= MaxStartAt

\* start() without its guard.
alreadyPlaying_never == FALSE

\* The guard of start().
alreadyPlaying == phase # "idle"

\* start() while the phase is not idle: the guard returns.
StartIgnored ==
  /\ alreadyPlaying
  /\ lastCall' = "ignored"
  /\ UNCHANGED << phase, voices, frequencyHistory, startTime, animationId, snapshot,
                  ctxState, awaiting, timers, rafs, now, oscStops,
                  fadeRampAt, deviceCmds, startCalls, stopCalls, inits, run, gainRamps, calc, app >>

\* start() with the context running: the whole body runs in the call.
StartRunning ==
  /\ startCalls < MaxStarts
  /\ RoomToRun
  /\ ~ alreadyPlaying
  /\ ctxState = "running"
  /\ startCalls' = startCalls + 1
  /\ lastCall' = "started"
  /\ \E draws \in Draws : startBody(draws)
  /\ UNCHANGED << ctxState, awaiting, now, stopCalls, run, calc, app >>

\* start() with the context suspended: the call passes the guard and waits
\* for audioContext.resume().
StartSuspended ==
  /\ startCalls < MaxStarts
  /\ ~ alreadyPlaying
  /\ ctxState = "suspended"
  /\ startCalls' = startCalls + 1
  /\ awaiting' = awaiting + 1
  /\ lastCall' = "suspended"
  /\ UNCHANGED << phase, voices, frequencyHistory, startTime, animationId, snapshot,
                  ctxState, timers, rafs, now, oscStops,
                  fadeRampAt, deviceCmds, stopCalls, inits, run, gainRamps, calc, app >>

\* resume() resolves: the context runs and a waiting start() continues
\* after its await, without looking at the phase again.
ResumeResolved ==
  /\ awaiting > 0
  /\ RoomToRun
  /\ awaiting' = awaiting - 1
  /\ ctxState' = "running"
  /\ lastCall' = "started"
  /\ \E draws \in Draws : startBody(draws)
  /\ UNCHANGED << now, startCalls, stopCalls, run, calc, app >>

\* A start() that creates its voices before it awaits resume(), and so
\* leaves them behind when resume() rejects.
ResumeRejected_voicesFirst ==
  /\ awaiting > 0
  /\ ctxState = "suspended"
  /\ awaiting' = awaiting - 1
  /\ lastCall' = "rejected"
  /\ \E draws \in Draws : voices' = initializeVoices(draws)
  /\ oscStops' = oscStops \o [ i \in 1..VoiceCount |-> 0 ]
  /\ UNCHANGED << phase, frequencyHistory, startTime, animationId, snapshot,
                  ctxState, timers, rafs, now, fadeRampAt, deviceCmds,
                  startCalls, stopCalls, inits, run, gainRamps, calc, app >>

\* resume() rejects: the waiting start() rejects with the device's error.
ResumeRejected ==
  /\ awaiting > 0
  /\ ctxState = "suspended"
  /\ awaiting' = awaiting - 1
  /\ lastCall' = "rejected"
  /\ UNCHANGED << phase, voices, frequencyHistory, startTime, animationId, snapshot,
                  ctxState, timers, rafs, now, oscStops,
                  fadeRampAt, deviceCmds, startCalls, stopCalls, inits, run, gainRamps, calc, app >>

\* stop() called by the user.  Calls made while playing are counted and
\* bounded; a call made while idle is always possible.
UserStop ==
  /\ phase # "idle" => stopCalls < MaxStops
  /\ stopCalls' = IF phase = "idle" THEN stopCalls ELSE stopCalls + 1
  /\ lastCall' = IF phase = "idle" THEN "stop-idle" ELSE "stopped"
  /\ stop
  /\ UNCHANGED << ctxState, awaiting, timers, now, startCalls, run, calc, app >>

\* The outer callback of scheduleEnding without `if (this.phase !== 'idle')`.
FadeStartTimer_unguarded ==
  \E t \in BagToSet(timers) :
    /\ t.kind = "fade"
    /\ MayFire(t)
    /\ fadeRampAt' = now
    /\ deviceCmds' = deviceCmds + 1
    /\ timers' = (timers (-) SetToBag({t}))
                   (+) SetToBag({ Timer("stop", now + FadeDuration) })
    /\ UNCHANGED << phase, voices, frequencyHistory, startTime, animationId, snapshot,
                    ctxState, awaiting, lastCall, rafs, now, oscStops,
                    startCalls, stopCalls, inits, run, gainRamps, calc, app >>

\* The outer callback of scheduleEnding.
FadeStartTimer ==
  \E t \in BagToSet(timers) :
    /\ t.kind = "fade"
    /\ MayFire(t)
    /\ IF phase # "idle"
       THEN /\ fadeRampAt' = now
            /\ deviceCmds' = deviceCmds + 1
            /\ timers' = (timers (-) SetToBag({t}))
                           (+) SetToBag({ Timer("stop", now + FadeDuration) })
       ELSE /\ timers' = timers (-) SetToBag({t})
            /\ UNCHANGED << fadeRampAt, deviceCmds >>
    /\ UNCHANGED << phase, voices, frequencyHistory, startTime, animationId, snapshot,
                    ctxState, awaiting, lastCall, rafs, now, oscStops,
                    startCalls, stopCalls, inits, run, gainRamps, calc, app >>

\* The inner callback of scheduleEnding.
PostFadeTimer ==
  \E t \in BagToSet(timers) :
    /\ t.kind = "stop"
    /\ MayFire(t)
    /\ IF phase # "idle"
       THEN /\ stop
            /\ timers' = timers (-) SetToBag({t})
       ELSE /\ timers' = timers (-) SetToBag({t})
            /\ UNCHANGED << phase, voices, frequencyHistory, startTime, animationId,
                            snapshot, rafs, oscStops, fadeRampAt, deviceCmds, inits,
                            gainRamps >>
    /\ UNCHANGED << ctxState, awaiting, lastCall, now, startCalls, stopCalls, run, calc, app >>

\* updateVisualization without `if (this.phase === 'idle') return;`.
Frame_noIdleReturn ==
  \E id \in rafs :
    /\ LET elapsed == now - startTime
           ph == updatePhase(phase, elapsed)
           hist == pushHistory(frequencyHistory, voices, ph, elapsed)
           next == NewFrameId(rafs \ {id})
       IN  /\ \A i \in DOMAIN frequencyHistory : Len(frequencyHistory[i]) < MaxHist
           /\ phase' = ph
           /\ frequencyHistory' = hist
           /\ snapshot' = << visualization(hist, historyGeneration, voices, ph, elapsed) >>
           /\ animationId' = next
           /\ rafs' = (rafs \ {id}) \cup {next}
    /\ UNCHANGED << voices, startTime, ctxState, awaiting, lastCall, timers, now,
                    oscStops, fadeRampAt, deviceCmds, startCalls, stopCalls, inits, run, gainRamps, calc, app >>

\* One animation frame: a pending updateVisualization callback runs.  The
\* clock's unit is much longer than a frame: of the frames that fall on one
\* clock value the model runs one, and at most MaxHist in a run.
Frame ==
  \E id \in rafs :
    /\ IF phase = "idle"
       THEN /\ rafs' = rafs \ {id}
            /\ UNCHANGED << phase, frequencyHistory, snapshot, animationId >>
       ELSE LET elapsed == now - startTime
                ph == updatePhase(phase, elapsed)
                hist == pushHistory(frequencyHistory, voices, ph, elapsed)
                next == NewFrameId(rafs \ {id})
            IN  /\ \A i \in DOMAIN frequencyHistory : Len(frequencyHistory[i]) < MaxHist
                /\ \A i \in DOMAIN frequencyHistory :
                     frequencyHistory[i] # << >> =>
                       frequencyHistory[i][Len(frequencyHistory[i])].time < elapsed
                /\ phase' = ph
                /\ frequencyHistory' = hist
                /\ snapshot' = << visualization(hist, historyGeneration, voices, ph, elapsed) >>
                /\ animationId' = next
                /\ rafs' = (rafs \ {id}) \cup {next}
    /\ UNCHANGED << voices, startTime, ctxState, awaiting, lastCall, timers, now,
                    oscStops, fadeRampAt, deviceCmds, startCalls, stopCalls, inits, run, gainRamps, calc, app >>

\* One animation frame whose consumer calls stop() from the visualization
\* callback.  updateVisualization has sampled and handed out its value; the
\* callback's stop() stops the voices, empties the voice set and the history
\* and cancels this.animationId, which is the frame that is running; back in
\* updateVisualization, `this.animationId = requestAnimationFrame(...)`
\* requests the next frame all the same.
FrameStoppedByConsumer ==
  \E id \in rafs :
    /\ phase # "idle"
    /\ stopCalls < MaxStops
    /\ LET elapsed == now - startTime
           ph == updatePhase(phase, elapsed)
           hist == pushHistory(frequencyHistory, voices, ph, elapsed)
           cancelled == IF animationId # 0 THEN {animationId} ELSE {}
           next == NewFrameId((rafs \ {id}) \ cancelled)
       IN  /\ \A i \in DOMAIN frequencyHistory : Len(frequencyHistory[i]) < MaxHist
           /\ \A i \in DOMAIN frequencyHistory :
                frequencyHistory[i] # << >> =>
                  frequencyHistory[i][Len(frequencyHistory[i])].time < elapsed
           /\ snapshot' = << visualization(hist, historyGeneration, voices, ph, elapsed) >>
           /\ phase' = "idle"
           /\ oscStops' = [ o \in DOMAIN oscStops |->
                              IF \E i \in DOMAIN voices : voices[i].oscillator = o
                              THEN oscStops[o] + 1 ELSE oscStops[o] ]
           /\ deviceCmds' = deviceCmds + Len(voices)
           /\ voices' = << >>
           /\ frequencyHistory' = << >>
           /\ animationId' = next
           /\ rafs' = ((rafs \ {id}) \ cancelled) \cup {next}
    /\ inits' = 0
    /\ stopCalls' = stopCalls + 1
    /\ lastCall' = "stopped"
    /\ UNCHANGED << startTime, ctxState, awaiting, timers, now, fadeRampAt,
                    startCalls, run, gainRamps, calc, app >>

\* The clock advances by one second.  A timer runs at most MaxLate late, and
\* a start() whose resume() has resolved continues before the clock moves.
AdvanceTime ==
  /\ now < MaxTime
  /\ \A t \in BagToSet(timers) : now < t.due + MaxLate
  /\ ~ (awaiting > 0 /\ ctxState = "running")
  /\ now' = now + 1
  /\ UNCHANGED << phase, voices, frequencyHistory, startTime, animationId, snapshot,
                  ctxState, awaiting, lastCall, timers, rafs, oscStops,
                  fadeRampAt, deviceCmds, startCalls, stopCalls, inits, run, gainRamps, calc, app >>

Next ==
  \/ StartIgnored
  \/ StartRunning
  \/ StartSuspended
  \/ ResumeResolved
  \/ ResumeRejected
  \/ UserStop
  \/ FadeStartTimer
  \/ PostFadeTimer
  \/ Frame
  \/ AdvanceTime

Spec == Init /\ [][Next]_vars

\* The same engine with no stop() from the user and no start() while another
\* start() waits for resume(): runs end by the auto-stop alone.  Timers that
\* are due run, and the clock advances.
NextAuto ==
  \/ StartIgnored
  \/ StartRunning
  \/ StartSuspended /\ awaiting = 0
  \/ ResumeResolved
  \/ ResumeRejected
  \/ FadeStartTimer
  \/ PostFadeTimer
  \/ Frame
  \/ AdvanceTime

AutoSpec ==
  /\ Init
  /\ [][NextAuto]_vars
  /\ WF_vars(FadeStartTimer)
  /\ WF_vars(PostFadeTimer)
  /\ WF_vars(AdvanceTime)

\* The same engine with a consumer that may call stop() from inside the
\* visualization callback, and no start() while another start() waits for
\* resume().
NextConsumer ==
  \/ StartIgnored
  \/ StartRunning
  \/ StartSuspended /\ awaiting = 0
  \/ ResumeResolved
  \/ ResumeRejected
  \/ FadeStartTimer
  \/ PostFadeTimer
  \/ Frame
  \/ FrameStoppedByConsumer
  \/ AdvanceTime

ConsumerSpec == Init /\ [][NextConsumer]_vars

----------------------------------------------------------------------------
(***************************************************************************)
(* A run under any Config.  The engine above is built with one Config, in  *)
(* whole seconds.  The definitions below follow one voice through a run    *)
(* whose chaosDuration and convergeDuration are arguments, in units of     *)
(* 5 ms, so that a convergeDuration shorter than the 10 ms update interval *)
(* or not a multiple of it is among them: what start() schedules for the   *)
(* voice on the device, and what the ticks report for it.  Times are       *)
(* relative to the start of the run.                                       *)
(***************************************************************************)

\* The longest chaosDuration and convergeDuration explored, in units of 5 ms.
MaxDuration == 4

\* updateInterval of scheduleFrequencyConvergence: 0.01 s, in units of 5 ms.
updateInterval == 2

\* The Configs explored: the constructor takes any durations.
Configs ==
  { [ chaosDuration |-> c, convergeDuration |-> d ] :
      c \in 1..MaxDuration, d \in 1..MaxDuration }

\* The voices explored: the lowest and the highest draw, a target below the
\* start range and one above it.
RunVoices ==
  { [ startFrequency |-> randomStartFrequency(q),
      targetFrequency |-> targetFrequencies[i] ] : q \in {0, 3}, i \in {1, 9} }

\* scheduleFrequencyConvergence for one voice: the set-points handed to
\* oscillator.frequency.setValueAtTime, in order.  progress is the pair
\* i, totalUpdates of the quotient i / totalUpdates; with totalUpdates = 0
\* the quotient is 0 / 0, and progress, easedProgress and newFreq are NaN.
\* fromTime is the code's startTime argument.
scheduleFrequencyConvergence(voice, fromTime, endTime) ==
  LET totalUpdates == (endTime - fromTime) \div updateInterval
      freqDiff == voice.targetFrequency - voice.startFrequency
  IN  [ n \in 1..(totalUpdates + 1) |->
          LET i == n - 1
          IN  [ time |-> fromTime + i * updateInterval,
                progress |-> << i, totalUpdates >>,
                isNaN |-> totalUpdates = 0,
                newFreq |-> IF totalUpdates = 0 THEN 0
                            ELSE voice.startFrequency
                                   + ((freqDiff * easedProgress(i, totalUpdates)) \div 1000) ] ]

\* The phase update advancing one phase at a time from the phase the
\* previous tick left.
updatePhaseOf_stepwise(config, ph, elapsed) ==
  IF ph = "converge" /\ elapsed > config.chaosDuration + config.convergeDuration
  THEN "sustain"
  ELSE IF ph = "chaos" /\ elapsed > config.chaosDuration THEN "converge"
  ELSE ph

\* The phase update of updateVisualization under the given Config.
updatePhaseOf(config, ph, elapsed) ==
  IF elapsed > config.chaosDuration + config.convergeDuration THEN "sustain"
  ELSE IF elapsed > config.chaosDuration THEN "converge"
  ELSE ph

\* The frequency updateVisualization reports for the voice under the given
\* Config.
currentFrequencyOf(config, voice, ph, elapsed) ==
  IF ph = "chaos" THEN voice.startFrequency
  ELSE IF ph = "converge" THEN
    LET freqDiff == voice.targetFrequency - voice.startFrequency
    IN  voice.startFrequency
          + ((freqDiff * easedProgress(elapsed - config.chaosDuration,
                                       config.convergeDuration)) \div 1000)
  ELSE voice.targetFrequency

\* The last elapsed time at which a tick of the run is explored.
RunEnd(config) == config.chaosDuration + config.convergeDuration + updateInterval

\* start(): the phase is chaos, the convergence is scheduled from the end
\* of chaos to the end of converge, and the first tick runs at elapsed 0.
RunStart ==
  /\ run.phase = "idle"
  /\ \E config \in Configs, voice \in RunVoices :
       LET ph == updatePhaseOf(config, "chaos", 0)
       IN  run' = [ phase |-> ph,
                    previous |-> "chaos",
                    config |-> config,
                    voice |-> voice,
                    schedule |-> scheduleFrequencyConvergence(
                                   voice, config.chaosDuration,
                                   config.chaosDuration + config.convergeDuration),
                    elapsed |-> 0,
                    currentFrequency |-> currentFrequencyOf(config, voice, ph, 0) ]
  /\ UNCHANGED << phase, voices, frequencyHistory, startTime, animationId, snapshot,
                  ctxState, awaiting, lastCall, timers, rafs, now, oscStops,
                  fadeRampAt, deviceCmds, startCalls, stopCalls, inits, gainRamps, calc, app >>

\* A tick of the run, at the elapsed time of the previous tick or later.
RunTick ==
  /\ run.phase # "idle"
  /\ \E elapsed \in run.elapsed..RunEnd(run.config) :
       LET ph == updatePhaseOf(run.config, run.phase, elapsed)
       IN  run' = [ run EXCEPT
                      !.previous = run.phase,
                      !.phase = ph,
                      !.elapsed = elapsed,
                      !.currentFrequency =
                         currentFrequencyOf(run.config, run.voice, ph, elapsed) ]
  /\ UNCHANGED << phase, voices, frequencyHistory, startTime, animationId, snapshot,
                  ctxState, awaiting, lastCall, timers, rafs, now, oscStops,
                  fadeRampAt, deviceCmds, startCalls, stopCalls, inits, gainRamps, calc, app >>

NextAnyConfig ==
  \/ RunStart
  \/ RunTick

AnyConfigSpec == Init /\ [][NextAnyConfig]_vars

----------------------------------------------------------------------------
(***************************************************************************)
(* Functions of the class on their own: the constructor on any partial     *)
(* Config, calculateCompensationGain on any frequency, initializeVoices    *)
(* for any voiceCount.  Each action evaluates one of them and leaves the   *)
(* arguments and the result in calc; the evaluations do not depend on one  *)
(* another, and a behaviour holds one.  Here Configs are in the units of   *)
(* the source: hertz and seconds.                                          *)
(***************************************************************************)

\* Frequencies explored lie within GainSpread hertz of a band edge.
GainSpread == 1

\* The largest voiceCount explored.
MaxVoiceCount == 31

\* The defaults of the constructor.
defaults ==
  [ voiceCount |-> 30, minStartFreq |-> 200, maxStartFreq |-> 400,
    chaosDuration |-> 4, convergeDuration |-> 3, sustainDuration |-> 4,
    fadeDuration |-> 1, sampleRate |-> 44100 ]

\* The partial Configs explored: none or one field given, with a negative
\* value, zero, one, or 400.
PartialConfigs ==
  { [ k \in {} |-> 0 ] }
    \cup { [ k \in {field} |-> value ] :
             field \in DOMAIN defaults, value \in {-1, 0, 1, 400} }

\* The constructor's `{ ...defaults, ...config }`.
constructor(config) ==
  [ k \in DOMAIN defaults |-> IF k \in DOMAIN config THEN config[k] ELSE defaults[k] ]

\* new DeepNoteSynthesizer(config): the constructor has no throw statement.
Construct ==
  /\ calc = NoCalc
  /\ \E config \in PartialConfigs :
       calc' = [ op |-> "constructor",
                 argument |-> config,
                 outcome |-> "constructed",
                 config |-> constructor(config) ]
  /\ UNCHANGED << phase, voices, frequencyHistory, startTime, animationId, snapshot,
                  ctxState, awaiting, lastCall, timers, rafs, now, oscStops,
                  fadeRampAt, deviceCmds, startCalls, stopCalls, inits, run, gainRamps, app >>

\* The edges of the bands of calculateCompensationGain and of its clamp, and
\* zero, in hertz.
BandEdges == {0, 20, 100, 200, 500, 2000, 5000, 20000}

\* The frequencies explored, in hundredths of a hertz.
GainInputs == { 100 * (edge + d) : edge \in BandEdges, d \in (0 - GainSpread)..GainSpread }

\* calculateCompensationGain on two frequencies.
Gain ==
  /\ calc = NoCalc
  /\ \E frequency \in GainInputs, other \in GainInputs :
       calc' = [ op |-> "calculateCompensationGain",
                 frequency |-> frequency,
                 gain |-> calculateCompensationGain(frequency),
                 other |-> other,
                 otherGain |-> calculateCompensationGain(other) ]
  /\ UNCHANGED << phase, voices, frequencyHistory, startTime, animationId, snapshot,
                  ctxState, awaiting, lastCall, timers, rafs, now, oscStops,
                  fadeRampAt, deviceCmds, startCalls, stopCalls, inits, run, gainRamps, app >>

\* initializeVoices for a Config with the given voiceCount, every voice
\* with the draw q / 4 of Math.random().
initializeVoicesOf(voiceCount, q) ==
  [ i \in 1..voiceCount |->
      LET targetFrequency ==
            targetFrequencies[((i - 1) % Len(targetFrequencies)) + 1]
      IN  [ startFrequency |-> randomStartFrequency(q),
            targetFrequency |-> targetFrequency,
            compensationGain |-> calculateCompensationGain(targetFrequency) ] ]

\* initializeVoices under any voiceCount.
Voices ==
  /\ calc = NoCalc
  /\ \E voiceCount \in 1..MaxVoiceCount, q \in {0, 3} :
       calc' = [ op |-> "initializeVoices",
                 voiceCount |-> voiceCount,
                 voices |-> initializeVoicesOf(voiceCount, q) ]
  /\ UNCHANGED << phase, voices, frequencyHistory, startTime, animationId, snapshot,
                  ctxState, awaiting, lastCall, timers, rafs, now, oscStops,
                  fadeRampAt, deviceCmds, startCalls, stopCalls, inits, run, gainRamps, app >>

NextFunction ==
  \/ Construct
  \/ Gain
  \/ Voices

FunctionSpec == Init /\ [][NextFunction]_vars

----------------------------------------------------------------------------
(***************************************************************************)
(* The application (class DeepNoteApp): the Play and Stop buttons, the     *)
(* isPlaying flag and the status loop, driving the engine above.  Every    *)
(* start() is the one inside a play(), so the start() calls waiting for    *)
(* resume() are the play() calls waiting for start().  A promise that is   *)
(* already settled continues its awaiter before any click, timer or frame  *)
(* runs, so a play() whose start() finishes within the call is one step.   *)
(***************************************************************************)

\* phaseNames of updatePhaseDisplay.
phaseNames(ph) ==
  CASE ph = "idle" -> "Ready"
    [] ph = "chaos" -> "Chaos Phase"
    [] ph = "converge" -> "Converging"
    [] ph = "sustain" -> "Sustaining"

\* DeepNoteApp.stop() leaving the Stop button enabled.
stopApp_stopStaysEnabled(a) ==
  [ a EXCEPT !.isPlaying = FALSE,
             !.playBtn = "enabled",
             !.phaseText = "Ready" ]

\* DeepNoteApp.stop() on the application's own fields: the flag, the
\* buttons, resetStatus.  Its call of synthesizer.stop() is the engine's
\* stop in the same step.
stopApp(a) ==
  [ a EXCEPT !.isPlaying = FALSE,
             !.playBtn = "enabled",
             !.stopBtn = "disabled",
             !.phaseText = "Ready" ]

\* The first lines of play(), after its guard.
playFlags(a) ==
  [ a EXCEPT !.isPlaying = TRUE,
             !.playBtn = "disabled",
             !.stopBtn = "enabled" ]

\* startStatusUpdates after start() has resolved: the first pass of
\* updateStatus, run within the call.  ph is the phase start() has left,
\* which is never idle; with isPlaying false the pass returns at once.
startStatusUpdates(a, ph) ==
  IF ~ a.isPlaying THEN a
  ELSE [ a EXCEPT !.phaseText = phaseNames(ph), !.statusRafs = @ + 1 ]

\* The application reads none of the voices' frequencies: its runs are
\* explored with one vector of random draws.
AppDraws == [ i \in 1..VoiceCount |-> IF i % 2 = 0 THEN 0 ELSE 3 ]

\* play() while isPlaying is true: the guard returns.
PlayIgnored ==
  /\ app.isPlaying
  /\ app' = [ app EXCEPT !.lastPlay = "ignored" ]
  /\ UNCHANGED << phase, voices, frequencyHistory, startTime, animationId, snapshot,
                  ctxState, awaiting, lastCall, timers, rafs, now, oscStops,
                  fadeRampAt, deviceCmds, startCalls, stopCalls, inits, run,
                  gainRamps, calc >>

\* play() with the context running and the engine idle: start() runs its
\* whole body and the status loop begins.
PlayRunning ==
  /\ ~ app.isPlaying
  /\ startCalls < MaxStarts
  /\ ~ alreadyPlaying
  /\ ctxState = "running"
  /\ startCalls' = startCalls + 1
  /\ lastCall' = "started"
  /\ startBody(AppDraws)
  /\ app' = startStatusUpdates([ playFlags(app) EXCEPT !.lastPlay = "started" ], phase')
  /\ UNCHANGED << ctxState, awaiting, now, stopCalls, run, calc >>

\* play() while the engine is not idle: the guard of start() returns, and
\* the status loop begins.
PlayWhileEnginePlays ==
  /\ ~ app.isPlaying
  /\ alreadyPlaying
  /\ lastCall' = "ignored"
  /\ app' = startStatusUpdates([ playFlags(app) EXCEPT !.lastPlay = "joined" ], phase)
  /\ UNCHANGED << phase, voices, frequencyHistory, startTime, animationId, snapshot,
                  ctxState, awaiting, timers, rafs, now, oscStops,
                  fadeRampAt, deviceCmds, startCalls, stopCalls, inits, run,
                  gainRamps, calc >>

\* play() with the context suspended: start() waits for resume() and play()
\* for start(); the flag and the buttons are already set.
PlaySuspended ==
  /\ ~ app.isPlaying
  /\ startCalls < MaxStarts
  /\ ~ alreadyPlaying
  /\ ctxState = "suspended"
  /\ startCalls' = startCalls + 1
  /\ awaiting' = awaiting + 1
  /\ lastCall' = "suspended"
  /\ app' = [ playFlags(app) EXCEPT !.lastPlay = "waiting" ]
  /\ UNCHANGED << phase, voices, frequencyHistory, startTime, animationId, snapshot,
                  ctxState, timers, rafs, now, oscStops,
                  fadeRampAt, deviceCmds, stopCalls, inits, run, gainRamps, calc >>

\* resume() resolves: the waiting start() runs its body and the waiting
\* play() goes on to startStatusUpdates.
PlayResumed ==
  /\ awaiting > 0
  /\ awaiting' = awaiting - 1
  /\ ctxState' = "running"
  /\ lastCall' = "started"
  /\ startBody(AppDraws)
  /\ app' = startStatusUpdates([ app EXCEPT !.lastPlay = "started" ], phase')
  /\ UNCHANGED << now, startCalls, stopCalls, run, calc >>

\* resume() rejects and play() has no catch: the rejection of start() ends
\* play() there.
PlayRejected_uncaught ==
  /\ awaiting > 0
  /\ ctxState = "suspended"
  /\ awaiting' = awaiting - 1
  /\ lastCall' = "rejected"
  /\ app' = [ app EXCEPT !.lastPlay = "failed" ]
  /\ UNCHANGED << phase, voices, frequencyHistory, startTime, animationId, snapshot,
                  ctxState, timers, rafs, now, oscStops,
                  fadeRampAt, deviceCmds, startCalls, stopCalls, inits, run,
                  gainRamps, calc >>

\* resume() rejects: start() rejects and play() catches the error and calls
\* this.stop().
PlayRejected ==
  /\ awaiting > 0
  /\ ctxState = "suspended"
  /\ awaiting' = awaiting - 1
  /\ lastCall' = "rejected"
  /\ app' = [ stopApp(app) EXCEPT !.lastPlay = "failed" ]
  /\ stop
  /\ UNCHANGED << ctxState, timers, now, startCalls, stopCalls, run, calc >>

\* A click on the Stop button, which dispatches none while it is disabled:
\* DeepNoteApp.stop().
StopClick ==
  /\ app.stopBtn # "disabled"
  /\ phase # "idle" => stopCalls < MaxStops
  /\ stopCalls' = IF phase = "idle" THEN stopCalls ELSE stopCalls + 1
  /\ lastCall' = IF phase = "idle" THEN "stop-idle" ELSE "stopped"
  /\ app' = stopApp(app)
  /\ stop
  /\ UNCHANGED << ctxState, awaiting, timers, now, startCalls, run, calc >>

\* One animation frame of the status loop: a pending updateStatus runs.
StatusFrame ==
  /\ app.statusRafs > 0
  /\ IF ~ app.isPlaying
     THEN /\ app' = [ app EXCEPT !.statusRafs = @ - 1 ]
          /\ UNCHANGED << phase, voices, frequencyHistory, startTime, animationId,
                          snapshot, rafs, oscStops, fadeRampAt, deviceCmds, inits,
                          gainRamps, lastCall >>
     ELSE IF getCurrentPhase = "idle"
     THEN /\ app' = stopApp([ app EXCEPT !.statusRafs = @ - 1, !.resets = @ + 1 ])
          /\ stop
          /\ lastCall' = "stop-idle"
     ELSE /\ app' = [ app EXCEPT !.phaseText = phaseNames(getCurrentPhase) ]
          /\ UNCHANGED << phase, voices, frequencyHistory, startTime, animationId,
                          snapshot, rafs, oscStops, fadeRampAt, deviceCmds, inits,
                          gainRamps, lastCall >>
  /\ UNCHANGED << ctxState, awaiting, timers, now, startCalls, stopCalls, run, calc >>

NextApp ==
  \/ PlayIgnored
  \/ PlayRunning
  \/ PlayWhileEnginePlays
  \/ PlaySuspended
  \/ PlayResumed
  \/ PlayRejected
  \/ StopClick
  \/ StatusFrame
  \/ FadeStartTimer
  \/ PostFadeTimer
  \/ AdvanceTime

\* The application and its engine.  Timers that are due run, pending status
\* callbacks run, and the clock advances; clicks may or may not come.  The
\* frames of the engine's sampling loop are left out: they move the phase
\* among chaos, converge and sustain, never to or from idle, and the
\* application reads of the engine only its phase.  A run may begin at any
\* time, the last ones outliving the clock's range.
AppSpec ==
  /\ Init
  /\ [][NextApp]_vars
  /\ WF_vars(StatusFrame)
  /\ WF_vars(FadeStartTimer)
  /\ WF_vars(PostFadeTimer)
  /\ WF_vars(AdvanceTime)

----------------------------------------------------------------------------
(* Properties *)

\* A step in which stop() runs: called by the user, or by the post-fade timer.
StopStep == UserStop \/ (PostFadeTimer /\ phase # "idle")

\* A step in which start() is called.
StartCall == StartIgnored \/ StartRunning \/ StartSuspended

\* Oscillators that were started and never stopped.
RunningOscillators == { o \in DOMAIN oscStops : oscStops[o] = 0 }

\* What a caller or the device can observe of a stopped engine.
observable == << phase, getElapsedTime, voices, frequencyHistory, oscStops, deviceCmds >>

\* C1: whatever the state stop() is called in, right after it the phase is
\* idle, getElapsedTime() is 0, and the voice set and the history are empty.
C1_StopResets ==
  [][StopStep => /\ getCurrentPhase' = "idle"
                 /\ getElapsedTime' = 0
                 /\ voices' = << >>
                 /\ frequencyHistory' = << >>]_vars

\* A run that the user stopped after the clock had moved on from its start.
C1_Witness ==
  /\ lastCall = "stopped"
  /\ phase = "idle"
  /\ now > startTime
  /\ Len(oscStops) = VoiceCount
  /\ voices = << >>

\* C2: a start() call made while the phase is not idle changes nothing: not
\* the voices, the start time, the phase, the history, the timers, the
\* pending frames, and it issues no device command.
C2_StartWhilePlayingIsNoOp ==
  [][(phase # "idle" /\ StartCall) =>
       UNCHANGED << engineVars, ctxState, awaiting, inits >>]_vars

\* start() has just been ignored in the sustain phase of a run with history.
C2_Witness ==
  /\ lastCall = "ignored"
  /\ phase = "sustain"
  /\ Len(voices) = VoiceCount
  /\ BagCardinality(timers) = 1

\* C3: however start() calls overlap, between two stop()s the body of
\* start() runs at most once: at most voiceCount oscillators are running and
\* at most one sampling callback is pending.
C3_StartRunsOncePerRun ==
  /\ inits <= 1
  /\ Cardinality(RunningOscillators) <= VoiceCount
  /\ Cardinality(rafs) <= 1

\* C4: right after stop() no timer armed by an earlier start() is pending.
C4_StopCancelsTimers ==
  [][StopStep => timers' = EmptyBag]_vars

\* C5: at most one auto-stop timer is pending at any time.
C5_AtMostOneAutoStopTimer == BagCardinality(timers) <= 1

\* C6: with no stop() from the user, a run's fade ramp is issued when
\* chaosDuration + convergeDuration + sustainDuration have elapsed and not
\* before, the run's stop() comes fadeDuration or more after that ramp and
\* only from the post-fade timer, and every run returns to idle.
C6_AutoStop ==
  /\ [][(FadeStartTimer /\ phase # "idle") =>
          /\ now >= startTime + ChaosDuration + ConvergeDuration + SustainDuration
          /\ fadeRampAt' = now]_vars
  /\ [][(phase # "idle" /\ phase' = "idle") =>
          /\ PostFadeTimer
          /\ fadeRampAt >= startTime + ChaosDuration + ConvergeDuration + SustainDuration
          /\ now >= fadeRampAt + FadeDuration]_vars
  /\ [](phase # "idle" => <>(phase = "idle"))

\* The auto-stop has ended a run: the ramp was issued, every oscillator was
\* stopped once and no timer is left.
C6_Witness ==
  /\ phase = "idle"
  /\ lastCall = "started"
  /\ fadeRampAt >= 0
  /\ oscStops # << >>
  /\ \A o \in DOMAIN oscStops : oscStops[o] = 1
  /\ timers = EmptyBag

\* C7: no step moves the phase backwards (sustain to converge or chaos,
\* converge to chaos), and the phase becomes idle only in a step that runs
\* stop().
C7_PhaseForwardOnly ==
  [][/\ phase = "sustain" => phase' \in {"sustain", "idle"}
     /\ phase = "converge" => phase' \in {"converge", "sustain", "idle"}
     /\ (phase # "idle" /\ phase' = "idle") => StopStep]_vars

\* A run sampled in chaos, then in converge, then in sustain.
C7_Witness ==
  /\ phase = "sustain"
  /\ Len(frequencyHistory) = VoiceCount
  /\ Len(frequencyHistory[1]) = 3
  /\ frequencyHistory[1][1].time <= ChaosDuration
  /\ frequencyHistory[1][2].time > ChaosDuration
  /\ frequencyHistory[1][2].time <= ChaosDuration + ConvergeDuration
  /\ frequencyHistory[1][3].time > ChaosDuration + ConvergeDuration

\* C8: when resume() rejects, start() reports the failure and leaves the
\* engine as it was: idle, no voice created or started, no history, no timer
\* armed, no sampling callback requested.
C8_FailedStartLeavesIdle ==
  [][ResumeRejected =>
       /\ lastCall' = "rejected"
       /\ phase' = "idle"
       /\ voices' = << >>
       /\ frequencyHistory' = << >>
       /\ UNCHANGED << engineVars, inits >>]_vars

\* A start() has just been rejected.
C8_Witness ==
  /\ lastCall = "rejected"
  /\ phase = "idle"
  /\ oscStops = << >>
  /\ timers = EmptyBag
  /\ rafs = {}

\* C9: every stop() leaves the engine idle with no voices and no history,
\* and a stop() called while idle changes nothing observable and issues no
\* oscillator stop.
C9_StopIdempotent ==
  /\ [][UserStop => (phase' = "idle" /\ voices' = << >> /\ frequencyHistory' = << >>)]_vars
  /\ [][(UserStop /\ phase = "idle") => UNCHANGED observable]_vars

\* stop() was called again after a stop() that had ended a run.
C9_Witness ==
  /\ lastCall = "stop-idle"
  /\ phase = "idle"
  /\ oscStops # << >>
  /\ \A o \in DOMAIN oscStops : oscStops[o] = 1

\* C10: no oscillator ever receives a second stop command, and a post-fade
\* timer that runs while the phase is idle changes nothing but the timer
\* queue.
C10_NoDuplicateStop ==
  /\ [](\A o \in DOMAIN oscStops : oscStops[o] <= 1)
  /\ [][(PostFadeTimer /\ phase = "idle") =>
          UNCHANGED << phase, voices, frequencyHistory, startTime, animationId,
                       snapshot, rafs, oscStops, fadeRampAt, deviceCmds >>]_vars

\* The user stopped the only run while its fade was in flight, and the
\* post-fade timer has run since: every oscillator has its one stop.
C10_Witness ==
  /\ lastCall = "stopped"
  /\ phase = "idle"
  /\ startCalls = 1
  /\ fadeRampAt >= 0
  /\ oscStops # << >>
  /\ timers = EmptyBag
  /\ \A o \in DOMAIN oscStops : oscStops[o] = 1

----------------------------------------------------------------------------
(* The sampling tick *)

\* A step in which a sampling tick runs its body: the phase is not idle.
Tick == Frame /\ phase # "idle"

\* C11: while playing, getCurrentPhase() is the phase of the current elapsed
\* time: chaos before chaosDuration, converge strictly between chaosDuration
\* and chaosDuration + convergeDuration, sustain after that, whether or not
\* a tick has run since the threshold was crossed.
C11_PhaseFollowsElapsed ==
  phase # "idle" =>
    /\ getElapsedTime < ChaosDuration => getCurrentPhase = "chaos"
    /\ (getElapsedTime > ChaosDuration
          /\ getElapsedTime < ChaosDuration + ConvergeDuration)
         => getCurrentPhase = "converge"
    /\ getElapsedTime > ChaosDuration + ConvergeDuration
         => getCurrentPhase = "sustain"

C14_SnapshotImmutable ==
  [][(/\ snapshot # << >>
      /\ phase # "idle"
      /\ phase' # "idle"
      /\ snapshot[1].frequencyHistory.arrays = historyGeneration
      /\ historyGeneration' = historyGeneration) =>
       \A i \in DOMAIN frequencyHistory' :
          Len(frequencyHistory'[i]) = snapshot[1].frequencyHistory.lengths[i]]_vars

\* C15 as stated: a tick at elapsed = chaosDuration reports converge.
C15_BoundaryIsConverge ==
  [][(Tick /\ now - startTime = ChaosDuration) => getCurrentPhase' = "converge"]_vars

\* C15 as amended: a tick at elapsed = chaosDuration reports chaos, with
\* every voice at its start frequency; converge is reported from the first
\* tick at an elapsed time strictly greater than chaosDuration.
C15_BoundaryIsChaos ==
  [][(Tick /\ now - startTime = ChaosDuration) =>
       /\ getCurrentPhase' = "chaos"
       /\ snapshot'[1].currentTime = ChaosDuration
       /\ snapshot'[1].currentFrequencies
            = [ i \in DOMAIN voices |-> voices[i].startFrequency ]]_vars

\* The last value handed out was sampled at elapsed = chaosDuration by a
\* tick after the first.
C15_Witness ==
  /\ phase = "chaos"
  /\ snapshot # << >>
  /\ snapshot[1].currentTime = ChaosDuration
  /\ frequencyHistory # << >>
  /\ Len(frequencyHistory[1]) = 2

\* C16 as stated: a tick at elapsed = chaosDuration + convergeDuration
\* reports sustain, with every voice at its target frequency.
C16_BoundaryIsSustain ==
  [][(Tick /\ now - startTime = ChaosDuration + ConvergeDuration) =>
       /\ getCurrentPhase' = "sustain"
       /\ snapshot'[1].currentFrequencies
            = [ i \in DOMAIN voices |-> voices[i].targetFrequency ]]_vars

\* C16 as amended: a tick at elapsed = chaosDuration + convergeDuration
\* reports converge, interpolating at progress 1, which puts every voice at
\* its target frequency; sustain is reported from the first tick at an
\* elapsed time strictly greater.
C16_BoundaryIsConvergeAtTarget ==
  [][(Tick /\ now - startTime = ChaosDuration + ConvergeDuration) =>
       /\ getCurrentPhase' = "converge"
       /\ snapshot'[1].currentTime = ChaosDuration + ConvergeDuration
       /\ snapshot'[1].currentFrequencies
            = [ i \in DOMAIN voices |-> voices[i].targetFrequency ]]_vars

\* The last value handed out was sampled at elapsed = chaosDuration +
\* convergeDuration.
C16_Witness ==
  /\ phase = "converge"
  /\ snapshot # << >>
  /\ snapshot[1].currentTime = ChaosDuration + ConvergeDuration
  /\ snapshot[1].timestamp = now

----------------------------------------------------------------------------
(* The run under any Config *)

\* x lies in the closed interval between a and b.
Between(x, a, b) == (a <= x /\ x <= b) \/ (b <= x /\ x <= a)

\* C17: under every Config, the tick at elapsed 0 reports chaos, a tick at
\* an elapsed time strictly between chaosDuration and chaosDuration +
\* convergeDuration reports converge, and a tick at an elapsed time strictly
\* greater than chaosDuration + convergeDuration reports sustain, whatever
\* the previous tick reported.
C17_TickPhaseByElapsed ==
  run.phase # "idle" =>
    /\ run.elapsed = 0 => run.phase = "chaos"
    /\ (run.elapsed > run.config.chaosDuration
          /\ run.elapsed < run.config.chaosDuration + run.config.convergeDuration)
         => run.phase = "converge"
    /\ run.elapsed > run.config.chaosDuration + run.config.convergeDuration
         => run.phase = "sustain"

\* A tick past the end of converge reports sustain right after a tick that
\* reported chaos.
C17_Witness ==
  /\ run.phase = "sustain"
  /\ run.previous = "chaos"
  /\ run.elapsed > run.config.chaosDuration + run.config.convergeDuration

\* C18: under every Config the schedule of a voice has N + 1 set-points,
\* N = floor(convergeDuration / 0.01), the progress i / N of each is
\* defined, the first set-point is the voice's start frequency and the last
\* its target frequency.
C18_ScheduleEndpointsExact ==
  run.phase # "idle" =>
    LET N == run.config.convergeDuration \div updateInterval
        last == run.schedule[Len(run.schedule)]
    IN  /\ Len(run.schedule) = N + 1
        /\ \A n \in DOMAIN run.schedule :
             /\ run.schedule[n].progress[2] # 0
             /\ ~ run.schedule[n].isNaN
        /\ run.schedule[1].newFreq = run.voice.startFrequency
        /\ last.newFreq = run.voice.targetFrequency

\* C19: every set-point whose progress is defined carries the progress, and
\* the frequency, that a tick at the set-point's time computes:
\* i / N = (elapsed - chaosDuration) / convergeDuration at elapsed =
\* chaosDuration + i * 0.01.
C19_ScheduleMatchesTick ==
  run.phase # "idle" =>
    \A n \in DOMAIN run.schedule :
      LET point == run.schedule[n]
          elapsed == point.time
          ph == updatePhaseOf(run.config, "chaos", elapsed)
      IN  ~ point.isNaN =>
            /\ point.progress[1] * run.config.convergeDuration
                 = (elapsed - run.config.chaosDuration) * point.progress[2]
            /\ point.newFreq = currentFrequencyOf(run.config, run.voice, ph, elapsed)

\* C20: every frequency the schedule sets and every frequency a tick reports
\* lies between the voice's start and target frequencies, the progress of
\* every set-point lies in [0, 1], and along the schedule the frequency
\* never moves back towards the start.
C20_NoOvershoot ==
  run.phase # "idle" =>
    /\ Between(run.currentFrequency, run.voice.startFrequency, run.voice.targetFrequency)
    /\ \A n \in DOMAIN run.schedule :
         /\ ~ run.schedule[n].isNaN
         /\ run.schedule[n].progress[2] > 0
         /\ run.schedule[n].progress[1] >= 0
         /\ run.schedule[n].progress[1] <= run.schedule[n].progress[2]
         /\ Between(run.schedule[n].newFreq,
                    run.voice.startFrequency, run.voice.targetFrequency)
         /\ n > 1 => Between(run.schedule[n - 1].newFreq,
                             run.voice.startFrequency, run.schedule[n].newFreq)

----------------------------------------------------------------------------
(* The functions on their own *)

\* A Config the data model calls valid: positive durations and sample rate,
\* at least one voice, 0 < minStartFreq < maxStartFreq.
ValidConfig(config) ==
  /\ config.voiceCount >= 1
  /\ config.minStartFreq > 0
  /\ config.minStartFreq < config.maxStartFreq
  /\ config.chaosDuration > 0
  /\ config.convergeDuration > 0
  /\ config.sustainDuration > 0
  /\ config.fadeDuration > 0
  /\ config.sampleRate > 0

\* C21: constructing the engine with an invalid Config ends in a
\* ConfigError: no engine holds an invalid Config.
C21_InvalidConfigRejected ==
  (calc.op = "constructor" /\ ~ ValidConfig(calc.config))
    => calc.outcome = "ConfigError"

\* The 15-entry D major ladder, in hundredths of a hertz.
Ladder ==
  << 7342, 9250, 11000, 14683, 18500, 22000, 29366, 36999, 44000,
     58733, 73999, 88000, 117466, 147998, 176000 >>

\* C22: for every voiceCount, voice i (counted from 0) has the target
\* frequency Ladder[i mod 15]; voices 0 and 15 have the same target.
C22_TargetIsLadderEntry ==
  calc.op = "initializeVoices" =>
    /\ Len(calc.voices) = calc.voiceCount
    /\ \A i \in 0..(calc.voiceCount - 1) :
         calc.voices[i + 1].targetFrequency = Ladder[(i % 15) + 1]
    /\ calc.voiceCount > 15 =>
         calc.voices[1].targetFrequency = calc.voices[16].targetFrequency

\* initializeVoices has run for more than 30 voices.
C22_Witness ==
  /\ calc.op = "initializeVoices"
  /\ calc.voiceCount > 30
  /\ calc.voices[31].targetFrequency = 7342

\* C23: the gain is 3.0 on [20,100) Hz, 2.0 on [100,200), 1.5 on [200,500),
\* 1.0 on [500,2000), 1.2 on [2000,5000) and 1.5 on [5000,20000]; so
\* gain(99) = 3.0, gain(100) = 2.0, gain(199) = 2.0, gain(200) = 1.5,
\* gain(499) = 1.5, gain(500) = 1.0, gain(1999) = 1.0, gain(2000) = 1.2,
\* gain(4999) = 1.2 and gain(5000) = 1.5.
C23_BandTable ==
  calc.op = "calculateCompensationGain" =>
    LET f == calc.frequency
        g == calc.gain
    IN  /\ (2000 <= f /\ f < 10000) => g = 30
        /\ (10000 <= f /\ f < 20000) => g = 20
        /\ (20000 <= f /\ f < 50000) => g = 15
        /\ (50000 <= f /\ f < 200000) => g = 10
        /\ (200000 <= f /\ f < 500000) => g = 12
        /\ (500000 <= f /\ f <= 2000000) => g = 15
        /\ f = 9900 => g = 30
        /\ f = 10000 => g = 20
        /\ f = 19900 => g = 20
        /\ f = 20000 => g = 15
        /\ f = 49900 => g = 15
        /\ f = 50000 => g = 10
        /\ f = 199900 => g = 10
        /\ f = 200000 => g = 12
        /\ f = 499900 => g = 12
        /\ f = 500000 => g = 15

\* The gain of 100 Hz has been computed.
C23_Witness ==
  /\ calc.op = "calculateCompensationGain"
  /\ calc.frequency = 10000
  /\ calc.gain = 20

\* C24 as stated: the gain does not decrease with the frequency on
\* [20,500) Hz, is 1.0 on [500,2000) and does not decrease on [2000,20000].
C24_NonDecreasing ==
  calc.op = "calculateCompensationGain" =>
    LET f == calc.frequency
        h == calc.other
    IN  /\ (2000 <= f /\ f <= h /\ h < 50000) => calc.gain <= calc.otherGain
        /\ (50000 <= f /\ f < 200000) => calc.gain = 10
        /\ (200000 <= f /\ f <= h /\ h <= 2000000) => calc.gain <= calc.otherGain

\* C24 as amended: the gain does not increase with the frequency on
\* [20,500) Hz (3.0, 2.0, 1.5), is 1.0 on [500,2000) and does not decrease
\* on [2000,20000] (1.2, 1.5).
C24_DownThenUp ==
  calc.op = "calculateCompensationGain" =>
    LET f == calc.frequency
        h == calc.other
    IN  /\ (2000 <= f /\ f <= h /\ h < 50000) => calc.gain >= calc.otherGain
        /\ (50000 <= f /\ f < 200000) => calc.gain = 10
        /\ (200000 <= f /\ f <= h /\ h <= 2000000) => calc.gain <= calc.otherGain

\* The gains of 99 Hz and 100 Hz have been computed: 3.0 and 2.0.
C24_Witness ==
  /\ calc.op = "calculateCompensationGain"
  /\ calc.frequency = 9900
  /\ calc.other = 10000
  /\ calc.gain = 30
  /\ calc.otherGain = 20

\* C25: for a frequency outside [20,20000] Hz the gain is the gain of the
\* frequency clamped to that range: 3.0 below 20 Hz, zero and negative
\* frequencies included, and 1.5 above 20000 Hz.
C25_Saturating ==
  (calc.op = "calculateCompensationGain"
     /\ (calc.frequency < 2000 \/ calc.frequency > 2000000)) =>
    /\ calc.gain = calculateCompensationGain(Max(2000, Min(2000000, calc.frequency)))
    /\ calc.frequency < 2000 => calc.gain = 30
    /\ calc.frequency > 2000000 => calc.gain = 15

\* The gain of a negative frequency has been computed.
C25_Witness ==
  /\ calc.op = "calculateCompensationGain"
  /\ calc.frequency < 0
  /\ calc.gain = 30

----------------------------------------------------------------------------
(* The engine's voices, durations and history *)

\* C26: every voice's compensationGain is the compensation of its target
\* frequency, lies between 1.0 and 3.0, and is still the value the voice
\* was created with: the ramp scheduled on the voice's gain node at start()
\* has the target 0.1 times the compensationGain the voice has now.
C26_CompensationOfTarget ==
  \A i \in DOMAIN voices :
    /\ voices[i].compensationGain = calculateCompensationGain(voices[i].targetFrequency)
    /\ voices[i].compensationGain >= 10
    /\ voices[i].compensationGain <= 30
    /\ voices[i].oscillator \in DOMAIN gainRamps
    /\ 10 * gainRamps[voices[i].oscillator] = 1 * (10 * voices[i].compensationGain)

\* A run in converge whose first voice, with a target below 100 Hz, has the
\* compensation 3.0 and the ramp target 0.30.
C26_Witness ==
  /\ phase = "converge"
  /\ voices[1].targetFrequency < 10000
  /\ voices[1].compensationGain = 30
  /\ gainRamps[voices[1].oscillator] = 30

\* C27: getTotalDuration() is chaosDuration + convergeDuration +
\* sustainDuration + fadeDuration, every value handed to the consumer
\* carries that total, and the auto-stop's stop() is scheduled fadeDuration
\* after the fade ramp, which is not before the total has elapsed since the
\* start and exactly then when the fade timer ran on time.
C27_TotalDuration ==
  /\ getTotalDuration = ChaosDuration + ConvergeDuration + SustainDuration + FadeDuration
  /\ snapshot # << >> =>
       snapshot[1].totalDuration
         = ChaosDuration + ConvergeDuration + SustainDuration + FadeDuration
  /\ \A t \in BagToSet(timers) :
       t.kind = "stop" =>
         /\ t.due = fadeRampAt + FadeDuration
         /\ t.due >= startTime + ChaosDuration + ConvergeDuration
                       + SustainDuration + FadeDuration
         /\ fadeRampAt = startTime + ChaosDuration + ConvergeDuration + SustainDuration
              => t.due = startTime + ChaosDuration + ConvergeDuration
                           + SustainDuration + FadeDuration

\* The fade timer ran on time and the stop() of the run is pending, due
\* when the total will have elapsed.
C27_Witness ==
  /\ phase # "idle"
  /\ snapshot # << >>
  /\ \E t \in BagToSet(timers) :
       /\ t.kind = "stop"
       /\ t.due = startTime + getTotalDuration

\* C28: while the phase is idle the voice set and the history are empty and
\* getElapsedTime() is 0; while it is not, the voice set holds the
\* voiceCount voices of the most recent start() and the history one
\* sequence per voice.
C28_IdleEmptyPlayingFull ==
  /\ phase = "idle" =>
       /\ voices = << >>
       /\ frequencyHistory = << >>
       /\ getElapsedTime = 0
  /\ phase # "idle" =>
       /\ Len(voices) = VoiceCount
       /\ \A i \in DOMAIN voices :
            voices[i].oscillator = Len(oscStops) - VoiceCount + i
       /\ Len(frequencyHistory) = VoiceCount

\* A run is playing whose start() was not the first to create voices.
C28_Witness ==
  /\ phase # "idle"
  /\ Len(oscStops) = 2 * VoiceCount
  /\ Len(voices) = VoiceCount

\* C29: start() submits to the device, per voice, the seven commands that
\* create, connect, start and ramp it and one set-point per 10 ms of the
\* convergence and its end, and the four master-gain commands; a tick
\* submits nothing.
C29_TimelineSubmittedAtStart ==
  /\ [][(StartRunning \/ ResumeResolved) =>
          /\ deviceCmds' - deviceCmds
               = VoiceCount * (7 + 100 * ConvergeDuration + 1) + 4
          /\ Len(gainRamps') = Len(gainRamps) + VoiceCount]_vars
  /\ [][Frame => UNCHANGED << deviceCmds, oscStops, fadeRampAt, gainRamps >>]_vars

\* A run has been faded and stopped by its timers with no tick after the
\* one inside start().
C29_Witness ==
  /\ phase = "idle"
  /\ lastCall = "started"
  /\ fadeRampAt >= 0
  /\ snapshot # << >>
  /\ snapshot[1].currentTime = 0
  /\ oscStops # << >>
  /\ \A o \in DOMAIN oscStops : oscStops[o] = 1

\* C30: a tick appends to every voice's history one point, with the tick's
\* elapsed time and the frequency the tick reports for the voice; all
\* histories have the same length; and no step but a stop() takes a point
\* away from a history.
C30_TickAppendsOnePoint ==
  /\ [][Tick =>
          \A i \in DOMAIN voices :
            frequencyHistory'[i]
              = Append(frequencyHistory[i],
                       [ time |-> now - startTime,
                         frequency |-> snapshot'[1].currentFrequencies[i] ])]_vars
  /\ [](\A i, j \in DOMAIN frequencyHistory :
          Len(frequencyHistory[i]) = Len(frequencyHistory[j]))
  /\ [][~ StopStep =>
          \A i \in DOMAIN frequencyHistory :
            /\ i \in DOMAIN frequencyHistory'
            /\ Len(frequencyHistory'[i]) >= Len(frequencyHistory[i])
            /\ SubSeq(frequencyHistory'[i], 1, Len(frequencyHistory[i]))
                 = frequencyHistory[i]]_vars

----------------------------------------------------------------------------
(* The values handed out, the schedule, the timers *)

\* C31: while a run plays, the value last handed out reports for every
\* voice its start frequency if the tick's phase is chaos, start + (target -
\* start) * e((elapsed - chaosDuration) / convergeDuration) if it is
\* converge (so the mean of start and target half way through, and the
\* target at the end), and its target frequency if it is sustain; and its
\* list of target frequencies is the voices' targets in voice order.
C31_FrequencyByPhase ==
  phase # "idle" =>
    /\ snapshot # << >>
    /\ LET s == snapshot[1]
           elapsed == s.currentTime
       IN  /\ s.frequencies = [ i \in DOMAIN voices |-> voices[i].targetFrequency ]
           /\ DOMAIN s.currentFrequencies = DOMAIN voices
           /\ \A i \in DOMAIN voices :
                LET start == voices[i].startFrequency
                    target == voices[i].targetFrequency
                    f == s.currentFrequencies[i]
                IN  /\ phase = "chaos" => f = start
                    /\ phase = "converge" =>
                         /\ f = start + (((target - start)
                                  * easedProgress(elapsed - ChaosDuration,
                                                  ConvergeDuration)) \div 1000)
                         /\ 2 * (elapsed - ChaosDuration) = ConvergeDuration
                              => 2 * f = start + target
                         /\ elapsed - ChaosDuration = ConvergeDuration => f = target
                    /\ phase = "sustain" => f = target

\* A value was handed out half way through the convergence: the first voice
\* is reported between its start and its target.
C31_Witness ==
  /\ phase = "converge"
  /\ snapshot # << >>
  /\ 2 * (snapshot[1].currentTime - ChaosDuration) = ConvergeDuration
  /\ snapshot[1].currentFrequencies[1] < voices[1].startFrequency
  /\ snapshot[1].currentFrequencies[1] > voices[1].targetFrequency

\* C32: under every Config the voice receives exactly N + 1 set-points,
\* N = floor(convergeDuration / 0.01), one at every update index, the k-th
\* at chaosEnd + k * 0.01; their times increase strictly and lie within
\* [chaosEnd, convergeEnd].  The device receives a set-point only if its
\* frequency is a number: setValueAtTime rejects NaN.
C32_ScheduleCadence ==
  run.phase # "idle" =>
    LET N == run.config.convergeDuration \div updateInterval
        chaosEnd == run.config.chaosDuration
        convergeEnd == chaosEnd + run.config.convergeDuration
    IN  /\ Len(run.schedule) = N + 1
        /\ \A k \in 0..N :
             /\ run.schedule[k + 1].progress[1] = k
             /\ ~ run.schedule[k + 1].isNaN
             /\ run.schedule[k + 1].time = chaosEnd + k * updateInterval
             /\ run.schedule[k + 1].time >= chaosEnd
             /\ run.schedule[k + 1].time <= convergeEnd
             /\ k > 0 => run.schedule[k].time < run.schedule[k + 1].time

\* C33: a fade-start timer or a post-fade timer that runs while the phase is
\* idle issues no ramp and no other device command, arms no timer (the queue
\* loses the timer that ran and gains none), calls no stop() and leaves the
\* engine's state as it was.
C33_IdleTimerNoEffect ==
  [][((FadeStartTimer \/ PostFadeTimer) /\ phase = "idle") =>
       /\ UNCHANGED << phase, voices, frequencyHistory, startTime, animationId,
                       snapshot, rafs, oscStops, fadeRampAt, deviceCmds,
                       gainRamps, inits, lastCall >>
       /\ BagCardinality(timers') = BagCardinality(timers) - 1
       /\ \A t \in BagToSet(timers') :
            CopiesIn(t, timers') <= CopiesIn(t, timers)]_vars

\* The user stopped a run before its fade, and the run's fade-start timer
\* has run since, at its due time or later: no ramp was ever issued.
C33_Witness ==
  /\ phase = "idle"
  /\ lastCall = "stopped"
  /\ startCalls = 1
  /\ oscStops # << >>
  /\ now >= startTime + fadeStartTime
  /\ fadeRampAt = -1
  /\ timers = EmptyBag

\* C34: every oscillator the engine has started belongs to a voice of the
\* current voice set or has received a stop command, and right after a
\* stop() no oscillator the engine started is running.
C34_NoOrphanOscillator ==
  /\ [](\A o \in DOMAIN oscStops :
          \/ oscStops[o] >= 1
          \/ \E i \in DOMAIN voices : voices[i].oscillator = o)
  /\ [][StopStep => RunningOscillators' = {}]_vars

\* C35: the fade ramp of the master gain is issued only when the fadeStart
\* of the run that is playing has elapsed since that run's start, and a run
\* the user does not stop returns to idle only when its own total duration
\* has elapsed since its start.
C35_OwnTimersOnly ==
  /\ [][fadeRampAt' # fadeRampAt =>
          now >= startTime + ChaosDuration + ConvergeDuration + SustainDuration]_vars
  /\ [][(phase # "idle" /\ phase' = "idle" /\ ~ UserStop) =>
          now >= startTime + ChaosDuration + ConvergeDuration
                   + SustainDuration + FadeDuration]_vars

\* C36: in every state at most one animation-frame callback of the engine
\* is pending, also after the consumer has called stop() from the
\* visualization callback and start() has been called before the next frame.
C36_AtMostOneSamplingLoop == Cardinality(rafs) <= 1

----------------------------------------------------------------------------
(* The application *)

\* C37: whenever isPlaying is false the engine's phase is idle, also when
\* Stop is clicked while play() waits for synthesizer.start().
C37_StoppedMeansIdle == (~ app.isPlaying) => phase = "idle"

\* C38: once the engine has stopped itself while the application is playing
\* (isPlaying is true, the phase is idle and no play() waits for start()),
\* the application comes to its stopped state: isPlaying false, Play
\* enabled, Stop disabled, the status reset.  The pass of the status loop
\* that resets it, and every pass that finds isPlaying false, requests no
\* further frame; and a play() then accepted with the context running
\* starts a new run and a status loop.
C38_AutoStopResetsUI ==
  /\ (app.isPlaying /\ phase = "idle" /\ awaiting = 0)
       ~> (/\ ~ app.isPlaying
           /\ app.playBtn = "enabled"
           /\ app.stopBtn = "disabled"
           /\ app.phaseText = "Ready")
  /\ [][(StatusFrame /\ (~ app.isPlaying \/ phase = "idle")) =>
          /\ app'.statusRafs = app.statusRafs - 1
          /\ ~ app'.isPlaying
          /\ phase = "idle" => phase' = "idle"]_vars
  /\ [][(PlayRunning /\ app.lastPlay # "none") =>
          /\ phase' = "chaos"
          /\ Len(voices') = VoiceCount
          /\ app'.isPlaying
          /\ app'.statusRafs = app.statusRafs + 1]_vars

\* A run ended by the auto-stop, the status loop has reset the application
\* and ended, and a second play() has started a new run.
C38_Witness ==
  /\ app.isPlaying
  /\ app.lastPlay = "started"
  /\ app.resets = 1
  /\ app.statusRafs = 1
  /\ phase = "chaos"
  /\ startCalls = 2
  /\ stopCalls = 0
  /\ Len(oscStops) = 2 * VoiceCount
  /\ \A o \in 1..VoiceCount : oscStops[o] = 1

\* C39: when start() fails inside play(), the application is left stopped:
\* isPlaying false, Play enabled, Stop disabled, the engine idle with no
\* voices, no status callback pending; the next play() is accepted (it sets
\* isPlaying and calls start(), which passes its guard), while a play()
\* made with isPlaying true changes nothing.
C39_FailedStartStopsApp ==
  /\ [][PlayRejected =>
          /\ ~ app'.isPlaying
          /\ app'.playBtn = "enabled"
          /\ app'.stopBtn = "disabled"
          /\ phase' = "idle"
          /\ voices' = << >>
          /\ app'.statusRafs = 0]_vars
  /\ [](app.lastPlay = "failed" =>
          /\ ~ app.isPlaying
          /\ ~ alreadyPlaying)
  /\ [][((PlayRunning \/ PlaySuspended) /\ app.lastPlay = "failed") =>
          /\ app'.isPlaying
          /\ startCalls' = startCalls + 1]_vars
  /\ [][PlayIgnored =>
          /\ app'.isPlaying
          /\ UNCHANGED << engineVars, awaiting, startCalls,
                          app.playBtn, app.stopBtn, app.statusRafs >>]_vars

\* A play() failed, and the next play() has been accepted and waits for
\* start().
C39_Witness ==
  /\ lastCall = "suspended"
  /\ app.lastPlay = "waiting"
  /\ app.isPlaying
  /\ startCalls = 2
  /\ awaiting = 1
  /\ phase = "idle"

====
